---- MODULE Spec2Model ----
(***************************************************************************)
(* Model of the local-folder ingestion code:                               *)
(*   - example/local_folder_watcher.py   (FileChangeHandler + main loop)   *)
(*   - common/data_source/local_folder_connector.py (LocalFolderConnector) *)
(*                                                                         *)
(* Spec      : the live watcher.  The observer thread (event handlers) and *)
(*             the main thread (process_pending_changes and the sync of    *)
(*             each released file) interleave statement by statement; the  *)
(*             filesystem is changed by an outside writer.                 *)
(* SpecBulk  : LocalFolderConnector.load_from_state / poll_source, run     *)
(*             twice over a folder that an outside writer may change       *)
(*             while the generator is being consumed.                      *)
(* SpecList  : LocalFolderConnector._list_files, recursive or top-level,   *)
(*             over a root that may not be readable.                       *)
(* SpecPath  : LocalFolderConnector.__init__, the root against the base.   *)
(* SpecStart : main() up to the drain loop: the handler's constructor,     *)
(*             then the --initial-sync pass.                               *)
(* SpecNotify, SpecStop, SpecTimed : the live watcher with, in turn, the   *)
(*             notifications followed up to their sync attempt, Ctrl+C,    *)
(*             and uploads that take time.                                 *)
(***************************************************************************)
EXTENDS Integers, Sequences, FiniteSets, TLC

(***************************************************************************)
(* Bounds of the model and constants of the program                        *)
(***************************************************************************)
\* last clock value (seconds) the model lets time.time() reach
MaxTime == 4
\* number of changes the outside writer makes to the watched folder
MaxFsOps == 3
\* FileChangeHandler.__init__(debounce_seconds=2)
debounce_seconds == 2

\* largest batch_size the connector is built with
MaxBatch == 2
\* number of changes the outside writer makes during the bulk scans
MaxBulkOps == 1
\* longest folder_path the constructor is given
MaxPathLen == 6
\* last modification time (seconds) a file of the listed folder carries
MaxMtime == 3

Paths == {"a.txt", "b.log"}
\* the folder of the connector, in the two orders os.walk may hand it out
CPaths == {"a.txt", "b.txt", "c.log"}
WalkOrders == [fwd |-> <<"a.txt", "b.txt", "c.log">>,
               rev |-> <<"c.log", "b.txt", "a.txt">>]
\* the (start, end) pairs poll_source is called with
Windows == {<<1, 1>>, <<1, 2>>}
Contents == {"hello", "world"}
PatternSets == {{}, {"*.txt"}}
\* the folder _list_files is run on: two files at the top, one in a directory
LPaths == {"a.txt", "b.log", "sub/d.txt"}
ListOrder == <<"a.txt", "b.log", "sub/d.txt">>
ListPatternSets == {{}, {"*.txt"}, {"s*"}}

None == <<>>
\* the local file_content while nothing has been read into it
NoBytes == ""

VARIABLES
    \* ---- the watched folder and the clock
    fs,               \* path -> [kind: "absent"] | [kind: "file", content]
    now,              \* time.time()
    fsops,            \* changes made by the outside writer so far
    events,           \* raw watchdog events queued for the observer thread
    \* ---- FileChangeHandler fields
    file_patterns,    \* self.file_patterns
    file_hashes,      \* self.file_hashes      (dict: path -> sha256)
    pending_changes,  \* self.pending_changes  (dict, insertion ordered: <<path, time>>)
    \* ---- main thread: process_pending_changes / _sync_file_to_ragflow
    pc,               \* position of the main thread
    current_time,     \* local current_time      (line 244)
    snapshot,         \* list(self.pending_changes.items()) not yet visited (line 247)
    to_process,       \* local to_process, head = file being synced
    file_hash,        \* local file_hash         (line 171)
    file_content,     \* local file_content      (line 184)
    response,         \* local response.status_code (line 201)
    \* ---- observation of the run (not program state)
    \* ---- LocalFolderConnector and the folder it scans
    cfs,              \* path -> [kind: "absent"] | [kind: "file", content, mtime, readable]
    cops,             \* changes made to that folder by the outside writer
    batch_size,       \* self.batch_size
    compute_hash,     \* self.compute_hash
    c_patterns,       \* self.file_patterns
    window,           \* None for load_from_state, <<start, end>> for poll_source
    walk,             \* the order in which os.walk hands out the entries
    run,              \* 1 or 2: which of the two successive scans is running
    cpc,              \* position of the generator
    files,            \* local files, the part not yet visited (lines 285, 332)
    batch,            \* local batch   (lines 289, 336)
    yielded,          \* the batches the caller has received in this scan
    blob,             \* _create_document: blob    (line 214)
    doc_id,           \* _create_document: doc_id  (lines 219, 223)
    raised,           \* an exception has reached the caller of the generator
    recursive,        \* self.recursive
    root_readable,    \* os.scandir(self.folder_path) succeeds
    \* ---- LocalFolderConnector.__init__
    folder_path,      \* argument folder_path, a string of characters
    allowed_base_path,\* argument allowed_base_path
    self_folder_path, \* self.folder_path        (line 57)
    self_allowed_base_path, \* self.allowed_base_path (line 62)
    ipc,              \* "new", then "created" or "ConnectorValidationError"
    \* ---- observation of the run (not program state)
    formed,           \* the documents _create_document returned, in order
    skipped,          \* listed paths whose _create_document raised
    first_docs,       \* the documents yielded by the first scan
    listed,           \* what _list_files returned to this scan
    initial_sync,     \* args.initial_sync
    owed,             \* paths notified as existing files, no sync attempt since
    delivered,        \* path -> fingerprint of the bytes the server last accepted
    outcome,          \* path -> how its last sync attempt ended
    dropped,          \* paths released by a drain that the stop left without a sync
    burst,            \* path -> the times of its notifications: of those
                      \*         pending, and of those last released
    read_failed,      \* a file that was there could not be opened by its sync
    retry_due,       \* paths whose last upload was refused, no notification since
    hist              \* path -> what the outside writer last did to it, and how
                      \*         far the watcher has followed

cvars == <<cfs, cops, batch_size, compute_hash, c_patterns, window, walk, run,
           cpc, files, batch, yielded, formed, skipped, raised, blob, doc_id,
           first_docs, listed>>

wvars == <<fs, now, fsops, events, file_patterns, file_hashes, pending_changes,
           pc, current_time, snapshot, to_process, file_hash, file_content,
           response, retry_due, hist>>

pvars == <<folder_path, allowed_base_path, self_folder_path,
           self_allowed_base_path, ipc>>

lvars == <<recursive, root_readable>>

\* observations that only some of the specifications keep
mvars == <<owed, delivered, outcome, initial_sync, dropped, burst, read_failed>>

vars == <<wvars, cvars, pvars, lvars, mvars>>

(***************************************************************************)
(* Filesystem                                                              *)
(***************************************************************************)
AbsentEntry == [kind |-> "absent"]
FileEntry(c) == [kind |-> "file", content |-> c]

\* os.path.exists
Exists(entry) == entry.kind # "absent"
\* os.path.isfile
IsFile(entry) == entry.kind = "file"

\* hashlib.sha256 over the bytes of the file: a digest, injective on Contents
Sha256(c) == <<"sha256", c>>

(***************************************************************************)
(* Observation of the run: what happened to each path                      *)
(***************************************************************************)
\* observation of one path
\*   live       nothing to follow
\*   touched    touched, bytes unchanged
\*   deleted    removed from the folder (c: its last bytes; by: unlink or rename)
\*   removed    ... and the notification was handled while the path was away
\*              and tracked
\*   recreated  ... and a file with other bytes was then put at the path
Live == [st |-> "live", c |-> "", by |-> ""]
Touched == [st |-> "touched", c |-> "", by |-> ""]
Deleted(c, by) == [st |-> "deleted", c |-> c, by |-> by]
Removed(h) == [st |-> "removed", c |-> h.c, by |-> h.by]
Recreated == [st |-> "recreated", c |-> "", by |-> ""]

\* a file with bytes c appears at a path observed as h
Appears(h, c) == IF h.st = "removed" /\ h.c # c THEN Recreated ELSE Live

\* the notification of path p is handled
Handled(h, p) ==
    IF h.st = "deleted" /\ ~Exists(fs[p])
    THEN IF p \in DOMAIN file_hashes THEN Removed(h) ELSE Live
    ELSE h

(***************************************************************************)
(* Python dict helpers                                                     *)
(***************************************************************************)
\* the elements of a list
Range(sq) == {sq[i] : i \in 1..Len(sq)}
\* dict.get(key) on file_hashes (a function over the tracked paths)
Get(d, k) == IF k \in DOMAIN d THEN d[k] ELSE None
\* d[k] = v
Put(d, k, v) == [x \in DOMAIN d \cup {k} |-> IF x = k THEN v ELSE d[x]]
\* del d[k]
Remove(d, k) == [x \in DOMAIN d \ {k} |-> d[x]]

\* the insertion-ordered dict pending_changes as a sequence of <<path, time>>
Keys(od) == {od[i][1] : i \in 1..Len(od)}
TimeOf(od, k) == LET i == CHOOSE j \in 1..Len(od) : od[j][1] = k IN od[i][2]
\* od[k] = v : in place for an existing key, appended for a new one
OdPut(od, k, v) ==
    IF k \in Keys(od)
    THEN [i \in 1..Len(od) |-> IF od[i][1] = k THEN <<k, v>> ELSE od[i]]
    ELSE Append(od, <<k, v>>)
\* od.clear() where del od[k] was meant
OdClear(od, k) == <<>>
\* del od[k]
OdDel(od, k) == SelectSeq(od, LAMBDA item : item[1] # k)

(***************************************************************************)
(* FileChangeHandler._should_include_file  (lines 105-119)                 *)
(***************************************************************************)
Basename(p) == IF p = "sub/d.txt" THEN "d.txt" ELSE p
Ext(name) ==
    CASE name \in {"a.txt", "b.txt", "d.txt"} -> "txt"
      [] name \in {"b.log", "c.log"} -> "log"
      [] OTHER -> ""
\* fnmatch(filename, pattern) for the patterns in PatternSets
Fnmatch(name, pat) ==
    CASE pat = "*.txt" -> Ext(name) = "txt"
      [] pat = "*.log" -> Ext(name) = "log"
      [] pat = "s*" -> name = "sub/d.txt"
      [] OTHER -> name = pat

ShouldIncludeFile(patterns, p) ==
    IF patterns = {} THEN TRUE
    ELSE \E pat \in patterns : Fnmatch(Basename(p), pat)

(***************************************************************************)
(* FileChangeHandler._scan_initial_files  (lines 89-103)                   *)
(***************************************************************************)
ScanInitialFiles(fs0, patterns) ==
    LET tracked == {p \in Paths : IsFile(fs0[p]) /\ ShouldIncludeFile(patterns, p)}
    IN [p \in tracked |-> Sha256(fs0[p].content)]

(***************************************************************************)
(* State after FileChangeHandler.__init__ and observer.start()             *)
(***************************************************************************)
InitialFolders ==
    [Paths -> {AbsentEntry} \cup {FileEntry(c) : c \in {"hello"}}]

WInit ==
    /\ fs \in InitialFolders
    /\ now = 0
    /\ fsops = 0
    /\ events = {}
    /\ file_patterns \in PatternSets
    /\ file_hashes = ScanInitialFiles(fs, file_patterns)
    /\ pending_changes = <<>>
    /\ pc = "sleep"
    /\ current_time = 0
    /\ snapshot = <<>>
    /\ to_process = <<>>
    /\ file_hash = None
    /\ file_content = NoBytes
    /\ response = 0
    /\ retry_due = {}
    /\ hist = [p \in Paths |-> Live]

(***************************************************************************)
(* The outside writer                                                     *)
(***************************************************************************)
ChangedEvent(p) == [kind |-> "changed", src |-> p, dest |-> p]
MovedEvent(p, q) == [kind |-> "moved", src |-> p, dest |-> q]

mainLocals == <<pc, current_time, snapshot, to_process, file_hash, file_content, response>>
handlerState == <<file_patterns, file_hashes, pending_changes>>

\* a file is created, or rewritten with other bytes
FsWrite(p, c) ==
    /\ fsops < MaxFsOps
    /\ IsFile(fs[p]) => fs[p].content # c
    /\ fs' = [fs EXCEPT ![p] = FileEntry(c)]
    /\ events' = events \cup {ChangedEvent(p)}
    /\ fsops' = fsops + 1
    /\ hist' = [hist EXCEPT ![p] = Appears(hist[p], c)]
    /\ UNCHANGED <<now, handlerState, mainLocals, retry_due>>

\* touch: st_mtime changes, the bytes do not.  The handler reads st_mtime only
\* to fill metadata["modified_at"] (line 155), so the folder keeps the bytes only
FsTouch(p) ==
    /\ fsops < MaxFsOps
    /\ IsFile(fs[p])
    /\ fs' = fs
    /\ events' = events \cup {ChangedEvent(p)}
    /\ fsops' = fsops + 1
    /\ hist' = [hist EXCEPT ![p] = IF hist[p] = Live THEN Touched ELSE hist[p]]
    /\ UNCHANGED <<now, handlerState, mainLocals, retry_due>>

FsDelete(p) ==
    /\ fsops < MaxFsOps
    /\ IsFile(fs[p])
    /\ fs' = [fs EXCEPT ![p] = AbsentEntry]
    /\ events' = events \cup {ChangedEvent(p)}
    /\ fsops' = fsops + 1
    /\ hist' = [hist EXCEPT ![p] = Deleted(fs[p].content, "unlink")]
    /\ UNCHANGED <<now, handlerState, mainLocals, retry_due>>

\* rename(p, q)
FsMove(p, q) ==
    /\ fsops < MaxFsOps
    /\ p # q
    /\ IsFile(fs[p])
    /\ ~Exists(fs[q])
    /\ fs' = [fs EXCEPT ![p] = AbsentEntry, ![q] = fs[p]]
    /\ events' = events \cup {MovedEvent(p, q)}
    /\ fsops' = fsops + 1
    /\ hist' = [hist EXCEPT ![p] = Deleted(fs[p].content, "rename"),
                            ![q] = Appears(hist[q], fs[p].content)]
    /\ UNCHANGED <<now, handlerState, mainLocals, retry_due>>

(***************************************************************************)
(* Observer thread: FileChangeHandler._handle_file_change (lines 221-240)  *)
(* as a function of the handler's two dicts                                *)
(***************************************************************************)
HandleFileChange(h, p) ==
    IF ~Exists(fs[p])
    THEN [hashes  |-> IF p \in DOMAIN h.hashes THEN Remove(h.hashes, p) ELSE h.hashes,
          pending |-> h.pending]
    ELSE IF ~IsFile(fs[p]) THEN h
    ELSE IF ~ShouldIncludeFile(file_patterns, p) THEN h
    ELSE [hashes |-> h.hashes, pending |-> OdPut(h.pending, p, now)]

HandlerDicts == [hashes |-> file_hashes, pending |-> pending_changes]

\* on_created / on_modified / on_deleted (lines 255-271): one call
OnChanged(e) ==
    /\ e \in events
    /\ e.kind = "changed"
    /\ events' = events \ {e}
    /\ LET h == HandleFileChange(HandlerDicts, e.src)
       IN /\ file_hashes' = h.hashes
          /\ pending_changes' = h.pending
    /\ retry_due' = retry_due \ {e.src}
    /\ hist' = [hist EXCEPT ![e.src] = Handled(hist[e.src], e.src)]
    /\ UNCHANGED <<fs, now, fsops, file_patterns, mainLocals>>

\* an on_moved that forgets the old path
OnMovedDestOnly(e) ==
    /\ e \in events
    /\ e.kind = "moved"
    /\ events' = events \ {e}
    /\ LET h == HandleFileChange(HandlerDicts, e.dest)
       IN /\ file_hashes' = h.hashes
          /\ pending_changes' = h.pending
    /\ retry_due' = retry_due \ {e.src, e.dest}
    /\ hist' = [hist EXCEPT ![e.src] = Handled(hist[e.src], e.src)]
    /\ UNCHANGED <<fs, now, fsops, file_patterns, mainLocals>>

\* on_moved (lines 273-278): old path, then new path
OnMoved(e) ==
    /\ e \in events
    /\ e.kind = "moved"
    /\ events' = events \ {e}
    /\ LET h == HandleFileChange(HandleFileChange(HandlerDicts, e.src), e.dest)
       IN /\ file_hashes' = h.hashes
          /\ pending_changes' = h.pending
    /\ retry_due' = retry_due \ {e.src, e.dest}
    /\ hist' = [hist EXCEPT ![e.src] = Handled(hist[e.src], e.src)]
    /\ UNCHANGED <<fs, now, fsops, file_patterns, mainLocals>>

(***************************************************************************)
(* Main thread: FileChangeHandler.process_pending_changes (lines 242-253)  *)
(***************************************************************************)
\* line 248: current_time - change_time >= self.debounce_seconds
Ready(cur, change_time) == cur - change_time >= debounce_seconds

\* an exception that ends the for loop of line 252 with the file it hit
AfterSyncAbort(tp) == "sleep"

\* where the main thread goes once the file at the head of tp is done with:
\* the next iteration of "for file_path in to_process", or back to the loop
AfterSync(tp) == IF Len(tp) > 1 THEN "hash" ELSE "sleep"

\* main(), line 366: time.sleep(1) of the drain loop; the clock of the model
\* advances here
MainSleep ==
    /\ pc = "sleep"
    /\ now < MaxTime
    /\ now' = now + 1
    /\ pc' = "drain"
    /\ UNCHANGED <<fs, fsops, events, handlerState, current_time, snapshot,
                   to_process, file_hash, file_content, response, retry_due, hist>>

\* lines 244-247: take the time, snapshot the dict
ProcessPendingBegin ==
    /\ pc = "drain"
    /\ current_time' = now
    /\ snapshot' = pending_changes
    /\ to_process' = <<>>
    /\ pc' = "scan"
    /\ UNCHANGED <<fs, now, fsops, events, handlerState, file_hash, file_content,
                   response, retry_due, hist>>

\* lines 247-250: one iteration over the snapshot
ProcessPendingScan ==
    /\ pc = "scan"
    /\ snapshot # <<>>
    /\ LET file_path == Head(snapshot)[1]
           change_time == Head(snapshot)[2]
       IN IF Ready(current_time, change_time)
          THEN /\ to_process' = Append(to_process, file_path)
               /\ pending_changes' = OdDel(pending_changes, file_path)
          ELSE UNCHANGED <<to_process, pending_changes>>
    /\ snapshot' = Tail(snapshot)
    /\ UNCHANGED <<fs, now, fsops, events, file_patterns, file_hashes, pc,
                   current_time, file_hash, file_content, response, retry_due, hist>>

\* line 252: enter "for file_path in to_process" (or return when it is empty)
ProcessPendingDispatch ==
    /\ pc = "scan"
    /\ snapshot = <<>>
    /\ pc' = IF to_process = <<>> THEN "sleep" ELSE "hash"
    /\ UNCHANGED <<fs, now, fsops, events, handlerState, current_time, snapshot,
                   to_process, file_hash, file_content, response, retry_due, hist>>

(***************************************************************************)
(* Main thread: FileChangeHandler._sync_file_to_ragflow (lines 161-219)    *)
(* for the file at the head of to_process                                  *)
(***************************************************************************)
SyncPath == Head(to_process)

\* the released paths whose file the main thread has yet to open
AwaitingHash ==
    IF pc \in {"compare", "read", "post", "commit"} THEN Range(Tail(to_process))
    ELSE Range(to_process)

\* leave _sync_file_to_ragflow: locals die, the for loop goes on; rejected
\* tells whether the upload was refused (an exception of requests.post or a
\* status other than 200)
SyncReturn(rejected) ==
    /\ pc' = AfterSync(to_process)
    /\ to_process' = Tail(to_process)
    /\ file_hash' = None
    /\ file_content' = NoBytes
    /\ response' = 0
    /\ retry_due' = IF rejected THEN retry_due \cup {SyncPath}
                               ELSE retry_due \ {SyncPath}

\* line 171: file_hash = self._compute_file_hash(file_path); open() raises
\* when the file is gone and may raise when it is there (no permission, I/O
\* error); the except of line 218 logs it
SyncComputeHash ==
    /\ pc = "hash"
    /\ IF IsFile(fs[SyncPath])
       THEN \/ /\ file_hash' = Sha256(fs[SyncPath].content)
               /\ pc' = "compare"
               /\ retry_due' = retry_due \ {SyncPath}
               /\ UNCHANGED <<to_process, file_content, response>>
            \/ SyncReturn(FALSE)
       ELSE SyncReturn(FALSE)
    /\ UNCHANGED <<fs, now, fsops, events, handlerState, current_time, snapshot, hist>>

\* a handler that never takes the early return of line 177
UnchangedNever(old_hash, new_hash) == old_hash = new_hash /\ new_hash = None

\* lines 174-175: old_hash == file_hash
Unchanged(old_hash, new_hash) == old_hash = new_hash

\* lines 174-177
SyncCompare ==
    /\ pc = "compare"
    /\ IF Unchanged(Get(file_hashes, SyncPath), file_hash)
       THEN SyncReturn(FALSE)
       ELSE /\ pc' = "read"
            /\ UNCHANGED <<to_process, file_hash, file_content, response, retry_due>>
    /\ hist' = [hist EXCEPT ![SyncPath] =
                   IF hist[SyncPath].st \in {"touched", "recreated"} THEN Live
                   ELSE hist[SyncPath]]
    /\ UNCHANGED <<fs, now, fsops, events, handlerState, current_time, snapshot>>

\* lines 180-184: os.stat and the checksum of the metadata, then f.read()
SyncRead ==
    /\ pc = "read"
    /\ IF IsFile(fs[SyncPath])
       THEN \/ /\ file_content' = fs[SyncPath].content
               /\ pc' = "post"
               /\ UNCHANGED <<to_process, file_hash, response, retry_due>>
            \/ SyncReturn(FALSE)
       ELSE SyncReturn(FALSE)
    /\ UNCHANGED <<fs, now, fsops, events, handlerState, current_time, snapshot, hist>>

StatusCodes == {200, 500}

\* lines 201-207: requests.post answers with a status, or raises
SyncPost ==
    /\ pc = "post"
    /\ \/ \E status \in StatusCodes :
            /\ response' = status
            /\ pc' = "commit"
            /\ UNCHANGED <<to_process, file_hash, file_content, retry_due>>
       \/ SyncReturn(TRUE)
    /\ UNCHANGED <<fs, now, fsops, events, handlerState, current_time, snapshot, hist>>

\* a handler that commits whatever the server answered
AcceptedAnyStatus(status) == status \in {200, 500}

\* line 209
Accepted(status) == status = 200

\* lines 209-216
SyncCommit ==
    /\ pc = "commit"
    /\ IF Accepted(response)
       THEN /\ file_hashes' = Put(file_hashes, SyncPath, file_hash)
            /\ SyncReturn(FALSE)
       ELSE /\ UNCHANGED file_hashes
            /\ SyncReturn(TRUE)
    /\ UNCHANGED <<fs, now, fsops, events, file_patterns, pending_changes,
                   current_time, snapshot, hist>>

(***************************************************************************)
(* The watcher                                                             *)
(***************************************************************************)
Writer ==
    \/ \E p \in Paths, c \in Contents : FsWrite(p, c)
    \/ \E p \in Paths : FsTouch(p)
    \/ \E p \in Paths : FsDelete(p)
    \/ \E p \in Paths, q \in Paths : FsMove(p, q)

Observer ==
    \/ \E e \in events : OnChanged(e)
    \/ \E e \in events : OnMoved(e)

MainThread ==
    \/ MainSleep
    \/ ProcessPendingBegin
    \/ ProcessPendingScan
    \/ ProcessPendingDispatch
    \/ SyncComputeHash
    \/ SyncCompare
    \/ SyncRead
    \/ SyncPost
    \/ SyncCommit

\* the connector is not used by the watcher
ConnectorIdle ==
    /\ cfs = [p \in {} |-> AbsentEntry]
    /\ cops = 0
    /\ batch_size = 1
    /\ compute_hash = TRUE
    /\ c_patterns = {}
    /\ window = None
    /\ walk = "fwd"
    /\ run = 1
    /\ cpc = "idle"
    /\ files = <<>>
    /\ batch = <<>>
    /\ yielded = <<>>
    /\ blob = None
    /\ doc_id = None
    /\ raised = FALSE
    /\ formed = <<>>
    /\ skipped = {}
    /\ first_docs = <<>>
    /\ listed = <<>>

\* the constructor of the connector is not part of this specification
ConstructorIdle ==
    /\ folder_path = <<>>
    /\ allowed_base_path = <<>>
    /\ self_folder_path = <<>>
    /\ self_allowed_base_path = <<>>
    /\ ipc = "off"

\* _list_files walks the tree under a root that can be read
ListIdle ==
    /\ recursive = TRUE
    /\ root_readable = TRUE

\* no notification yet
NoBurst == [noted |-> {}, released |-> {}]

\* nothing is observed yet
MonitorsIdle ==
    /\ owed = {}
    /\ delivered = [p \in {} |-> None]
    /\ outcome = [p \in Paths |-> "none"]
    /\ initial_sync = FALSE
    /\ dropped = {}
    /\ burst = [p \in Paths |-> NoBurst]
    /\ read_failed = FALSE

Init == WInit /\ ConnectorIdle /\ ConstructorIdle /\ ListIdle /\ MonitorsIdle

Watcher == Writer \/ Observer \/ MainThread

Next == Watcher /\ UNCHANGED <<cvars, pvars, lvars, mvars>>

Spec == Init /\ [][Next]_vars

(***************************************************************************)
(* The watcher, with the notifications followed up to the sync attempt     *)
(***************************************************************************)
\* the paths an event names
Named(e) == IF e.kind = "moved" THEN {e.src, e.dest} ELSE {e.src}

\* the paths for which this step delivers a notification while a file that
\* the patterns include is there
NotifiedAsFile ==
    {p \in Paths : /\ \E e \in events \ events' : p \in Named(e)
                   /\ IsFile(fs[p])
                   /\ ShouldIncludeFile(file_patterns, p)}

\* this step opens the released file to hash it (line 171), or fails to
SyncAttemptStarts ==
    /\ pc = "hash"
    /\ (pc' # "hash" \/ to_process' # to_process)

FollowNotifications ==
    owed' = (IF SyncAttemptStarts THEN owed \ {SyncPath} ELSE owed) \cup NotifiedAsFile

NextNotify ==
    /\ Watcher
    /\ FollowNotifications
    /\ UNCHANGED <<cvars, pvars, lvars, delivered, outcome, initial_sync, dropped, burst,
                   read_failed>>

SpecNotify == Init /\ [][NextNotify]_vars

(***************************************************************************)
(* The watcher that can be stopped: main(), lines 364-374                  *)
(***************************************************************************)
\* Ctrl+C: KeyboardInterrupt is raised in the main thread at the statement it
\* has reached.  It is not an Exception, so the except of line 218 lets it
\* through; line 369 catches it, the locals of the drain are gone, line 371
\* stops the observer
KeyboardInterrupt ==
    /\ pc # "stopped"
    /\ pc' = "stopped"
    /\ current_time' = 0
    /\ snapshot' = <<>>
    /\ to_process' = <<>>
    /\ file_hash' = None
    /\ file_content' = NoBytes
    /\ response' = 0
    /\ UNCHANGED <<fs, now, fsops, events, handlerState, retry_due, hist>>

\* the released paths the stop finds waiting for their sync attempt
FollowStop ==
    dropped' = IF pc' = "stopped" /\ pc # "stopped" THEN AwaitingHash ELSE dropped

NextStop ==
    /\ \/ pc # "stopped" /\ Watcher
       \/ KeyboardInterrupt
    /\ FollowStop
    /\ UNCHANGED <<cvars, pvars, lvars, owed, delivered, outcome, initial_sync, burst,
                   read_failed>>

SpecStop == Init /\ [][NextStop]_vars

(***************************************************************************)
(* The watcher with uploads that take time                                 *)
(***************************************************************************)
\* main(), line 366: time.sleep(1), the period the drain loop sleeps
drain_interval == 1

\* lines 201-207: requests.post(..., timeout=60) blocks the main thread while
\* the request is in flight; the clock goes on
SyncPostWait ==
    /\ pc = "post"
    /\ now < MaxTime
    /\ now' = now + 1
    /\ UNCHANGED <<fs, fsops, events, handlerState, mainLocals, retry_due, hist>>

\* this step of the drain takes p out of pending_changes (lines 248-250)
Released(p) ==
    /\ pc = "scan"
    /\ p \in Keys(pending_changes)
    /\ p \notin Keys(pending_changes')

\* when the notifications of each path came
FollowBurst ==
    burst' = [p \in Paths |->
                IF p \in NotifiedAsFile
                THEN [burst[p] EXCEPT !.noted = @ \cup {now}]
                ELSE IF Released(p)
                THEN [noted |-> {}, released |-> burst[p].noted]
                ELSE burst[p]]

NextTimed ==
    /\ Watcher \/ SyncPostWait
    /\ FollowBurst
    /\ UNCHANGED <<cvars, pvars, lvars, owed, delivered, outcome, initial_sync, dropped,
                   read_failed>>

SpecTimed == Init /\ [][NextTimed]_vars

(***************************************************************************)
(* The watcher left to run for as long as it takes                         *)
(***************************************************************************)
\* a timestamp of pending_changes one second later on a clock that has
\* stopped counting: it is one second older, and past debounce_seconds it is
\* ready whatever its age (line 248)
Aged(change_time) ==
    IF change_time - 1 < MaxTime - debounce_seconds
    THEN MaxTime - debounce_seconds
    ELSE change_time - 1

\* main(), line 366: time.sleep(1) once the clock of the model is at MaxTime;
\* the second that passes is taken off the timestamps instead
MainSleepLate ==
    /\ pc = "sleep"
    /\ now = MaxTime
    /\ pending_changes' = [i \in 1..Len(pending_changes) |->
                              <<pending_changes[i][1], Aged(pending_changes[i][2])>>]
    /\ pc' = "drain"
    /\ UNCHANGED <<fs, now, fsops, events, file_patterns, file_hashes, current_time,
                   snapshot, to_process, file_hash, file_content, response,
                   retry_due, hist>>

\* this step gives up the file at the head of to_process because open()
\* raised (lines 171, 183) although the file is there
ReadFails ==
    /\ pc \in {"hash", "read"}
    /\ to_process' = Tail(to_process)
    /\ IsFile(fs[SyncPath])

FollowReads ==
    /\ read_failed' = (read_failed \/ ReadFails)
    /\ UNCHANGED <<cvars, pvars, lvars, owed, delivered, outcome, initial_sync,
                   dropped, burst>>

\* the observer thread and the main thread, each on its own
LiveObserver == Observer /\ FollowReads
LiveMain == (MainThread \/ MainSleepLate) /\ FollowReads
LiveWriter == Writer /\ FollowReads

LiveNext == LiveWriter \/ LiveObserver \/ LiveMain

\* every step of the main thread moves one of these
mainPosition == <<pc, snapshot, to_process>>

\* both threads keep running: the observer thread hands out the events that
\* are queued (line 361), the main thread never leaves its loop (lines
\* 364-367); the outside writer owes nothing
SpecLive ==
    /\ Init
    /\ [][LiveNext]_vars
    /\ WF_events(LiveObserver)
    /\ WF_mainPosition(LiveMain)

(***************************************************************************)
(* Start-up of the watcher: main(), lines 340-362                          *)
(***************************************************************************)
\* the order in which Path(args.folder).rglob('*') hands out the paths
RglobOrder == <<"a.txt", "b.log">>

\* the folders the watcher is started on
StartFolders == [Paths -> {AbsentEntry} \cup {FileEntry(c) : c \in Contents}]

\* main() has parsed its arguments, the handler is not built yet
StartInit ==
    /\ fs \in StartFolders
    /\ now = 0
    /\ fsops = 0
    /\ events = {}
    /\ file_patterns \in PatternSets
    /\ file_hashes = [p \in {} |-> None]
    /\ pending_changes = <<>>
    /\ pc = "construct"
    /\ current_time = 0
    /\ snapshot = <<>>
    /\ to_process = <<>>
    /\ file_hash = None
    /\ file_content = NoBytes
    /\ response = 0
    /\ retry_due = {}
    /\ hist = [p \in Paths |-> Live]
    /\ owed = {}
    /\ delivered = [p \in {} |-> None]
    /\ outcome = [p \in Paths |-> "none"]
    /\ initial_sync \in BOOLEAN
    /\ dropped = {}
    /\ burst = [p \in Paths |-> NoBurst]
    /\ read_failed = FALSE
    /\ ConnectorIdle
    /\ ConstructorIdle
    /\ ListIdle

\* lines 341-348: FileChangeHandler(...), whose __init__ ends with
\* self._scan_initial_files() (line 87)
HandlerInit ==
    /\ pc = "construct"
    /\ file_hashes' = ScanInitialFiles(fs, file_patterns)
    /\ pc' = "initial"
    /\ UNCHANGED <<fs, now, fsops, events, file_patterns, pending_changes, current_time,
                   snapshot, to_process, file_hash, file_content, response, retry_due,
                   hist>>

\* lines 351-355: with --initial-sync, _sync_file_to_ragflow for every file of
\* the folder; then the observer is started and the loop entered (line 358-366)
InitialSync ==
    /\ pc = "initial"
    /\ to_process' = IF initial_sync
                     THEN SelectSeq(RglobOrder, LAMBDA p : IsFile(fs[p]))
                     ELSE <<>>
    /\ pc' = IF to_process' = <<>> THEN "sleep" ELSE "hash"
    /\ UNCHANGED <<fs, now, fsops, events, handlerState, current_time, snapshot,
                   file_hash, file_content, response, retry_due, hist>>

\* the sync of the file at the head of to_process ends with this step
SyncEndsHere == to_process # <<>> /\ to_process' = Tail(to_process) /\ pc \notin {"scan"}

\* how it ends
Ending ==
    CASE pc \in {"hash", "read"} -> "unavailable"
      [] pc = "compare" -> "unchanged"
      [] pc = "commit" /\ response = 200 -> "accepted"
      [] OTHER -> "refused"

FollowDeliveries ==
    /\ outcome' = IF SyncEndsHere THEN [outcome EXCEPT ![SyncPath] = Ending] ELSE outcome
    /\ delivered' = IF SyncEndsHere /\ Ending = "accepted"
                    THEN Put(delivered, SyncPath, Sha256(file_content))
                    ELSE delivered

StartUp ==
    \/ HandlerInit
    \/ InitialSync
    \/ SyncComputeHash
    \/ SyncCompare
    \/ SyncRead
    \/ SyncPost
    \/ SyncCommit

StartNext ==
    /\ StartUp
    /\ FollowDeliveries
    /\ UNCHANGED <<cvars, pvars, lvars, owed, initial_sync, dropped, burst, read_failed>>

SpecStart == StartInit /\ [][StartNext]_vars

(***************************************************************************)
(* LocalFolderConnector: the folder, _should_include_file, _list_files     *)
(***************************************************************************)
CFile(c, t, r) == [kind |-> "file", content |-> c, mtime |-> t, readable |-> r]

\* open(file_path, "rb") succeeds
Readable(entry) == IsFile(entry) /\ entry.readable

\* the modification time of a file whose stat fails
NoStat == -1

\* a time filter that leaves out the files modified at end_time itself
InWindowEndExclusive(entry, win) ==
    IF win = None THEN TRUE
    ELSE /\ entry.mtime # NoStat
         /\ ~(entry.mtime < win[1])
         /\ ~(entry.mtime >= win[2])

\* lines 149-158: the modification-time filter of _list_files
\* (an mtime of NoStat: os.path.getmtime / entry.stat raises OSError, line 159)
InWindow(entry, win) ==
    IF win = None THEN TRUE
    ELSE /\ entry.mtime # NoStat
         /\ ~(entry.mtime < win[1])
         /\ ~(entry.mtime > win[2])

\* _list_files (lines 126-195): the files of the walk that pass the pattern
\* filter (lines 110-124) and the time filter
ListFiles(folder, patterns, win, order) ==
    SelectSeq(order, LAMBDA p : /\ IsFile(folder[p])
                                /\ ShouldIncludeFile(patterns, p)
                                /\ InWindow(folder[p], win))

\* hashlib.md5(rel_path.encode()).hexdigest()
Md5(rel_path) == <<"md5", rel_path>>

\* an id that is stamped with the scan that produced it
DocIdPerScan(hashing, file_digest, rel_path) ==
    IF hashing THEN <<"local_folder", file_digest, run>>
    ELSE <<"local_folder", Md5(rel_path), run>>

\* an id that carries the path along with the hash of the file
DocIdWithPath(hashing, file_digest, rel_path) ==
    IF hashing THEN <<"local_folder", file_digest, rel_path>>
    ELSE <<"local_folder", Md5(rel_path)>>

\* lines 217-223: doc_id
DocId(hashing, file_digest, rel_path) ==
    IF hashing THEN <<"local_folder", file_digest>>
    ELSE <<"local_folder", Md5(rel_path)>>

\* lines 246-255: the Document
Document(id, p, content, checksum) ==
    [id |-> id, source_path |-> p, blob |-> content, checksum |-> checksum]

\* an except clause that lets the errors of a vanished file through
CaughtPermissionOnly(exc) == exc = "PermissionError"

\* lines 300, 347: except Exception
CaughtByLoop(exc) == exc \in {"FileNotFoundError", "PermissionError"}

\* a test that lets the batch grow one document too far
FullOffByOne(b, k) == Len(b) > k

\* lines 295, 342: len(batch) >= self.batch_size
Full(b, k) == Len(b) >= k

RECURSIVE Flatten(_)
Flatten(batches) ==
    IF batches = <<>> THEN <<>> ELSE Head(batches) \o Flatten(Tail(batches))

(***************************************************************************)
(* The bulk scan: load_from_state (lines 276-307), poll_source (309-354)   *)
(***************************************************************************)
genLocals == <<files, batch, yielded, blob, doc_id>>
connectorConfig == <<batch_size, compute_hash, c_patterns, window>>

\* the error open() / os.stat() raises on this entry
OpenError(entry) == IF IsFile(entry) THEN "PermissionError" ELSE "FileNotFoundError"

\* where the generator goes after the file at the head of fl
AfterFile(fl) == IF Len(fl) > 1 THEN "stat" ELSE "flush"

\* lines 285-289 / 332-336: list the files, start with an empty batch
BulkStart ==
    /\ cpc = "idle"
    /\ \E w \in DOMAIN WalkOrders :
          /\ walk' = w
          /\ files' = ListFiles(cfs, c_patterns, window, WalkOrders[w])
    /\ listed' = files'
    /\ cpc' = IF files' = <<>> THEN "flush" ELSE "stat"
    /\ batch' = <<>>
    /\ yielded' = <<>>
    /\ formed' = <<>>
    /\ skipped' = {}
    /\ UNCHANGED <<cfs, cops, connectorConfig, run, blob, doc_id, raised, first_docs>>

\* _create_document raised for the file at the head of files: lines 259-261
\* re-raise, lines 300-302 / 347-349 log and continue
FileError(exc) ==
    /\ IF CaughtByLoop(exc)
       THEN /\ cpc' = AfterFile(files)
            /\ files' = Tail(files)
            /\ raised' = raised
       ELSE /\ cpc' = "aborted"
            /\ files' = files
            /\ raised' = TRUE
    /\ skipped' = skipped \cup {Head(files)}
    /\ blob' = None
    /\ doc_id' = None
    /\ UNCHANGED <<batch, yielded, formed>>

\* lines 208-214: os.stat, then read the blob
CreateDocumentRead ==
    /\ cpc = "stat"
    /\ LET entry == cfs[Head(files)]
       IN IF Readable(entry)
          THEN /\ blob' = entry.content
               /\ cpc' = "id"
               /\ UNCHANGED <<files, batch, yielded, doc_id, raised, formed, skipped>>
          ELSE FileError(OpenError(entry))
    /\ UNCHANGED <<cfs, cops, connectorConfig, walk, run, first_docs, listed>>

\* lines 216-223: the id, from a hash of the file as it is now or from the path
\* relative to self.folder_path, which is how the paths of CPaths are written
CreateDocumentId ==
    /\ cpc = "id"
    /\ LET entry == cfs[Head(files)]
       IN IF compute_hash /\ ~Readable(entry)
          THEN FileError(OpenError(entry))
          ELSE /\ doc_id' = DocId(compute_hash,
                                  IF compute_hash THEN Sha256(entry.content) ELSE None,
                                  Head(files))
               /\ cpc' = "meta"
               /\ UNCHANGED <<files, batch, yielded, blob, raised, formed, skipped>>
    /\ UNCHANGED <<cfs, cops, connectorConfig, walk, run, first_docs, listed>>

\* lines 233-257 build the document (the checksum is one more hash of the
\* file), lines 293-298 / 340-345 append it and yield a full batch
CreateDocumentAppend ==
    /\ cpc = "meta"
    /\ LET entry == cfs[Head(files)]
       IN IF compute_hash /\ ~Readable(entry)
          THEN FileError(OpenError(entry))
          ELSE LET doc == Document(doc_id, Head(files), blob,
                                   IF compute_hash THEN Sha256(entry.content) ELSE None)
                   grown == Append(batch, doc)
               IN /\ formed' = Append(formed, doc)
                  /\ IF Full(grown, batch_size)
                     THEN /\ yielded' = Append(yielded, grown)
                          /\ batch' = <<>>
                     ELSE /\ yielded' = yielded
                          /\ batch' = grown
                  /\ cpc' = AfterFile(files)
                  /\ files' = Tail(files)
                  /\ blob' = None
                  /\ doc_id' = None
                  /\ UNCHANGED <<raised, skipped>>
    /\ UNCHANGED <<cfs, cops, connectorConfig, walk, run, first_docs, listed>>

\* lines 304-307 / 351-354: the remaining documents
BulkFlush ==
    /\ cpc = "flush"
    /\ yielded' = IF batch # <<>> THEN Append(yielded, batch) ELSE yielded
    /\ batch' = <<>>
    /\ cpc' = "done"
    /\ UNCHANGED <<cfs, cops, connectorConfig, walk, run, files, blob, doc_id,
                   raised, formed, skipped, first_docs, listed>>

\* the caller runs the same scan a second time
BulkAgain ==
    /\ cpc = "done"
    /\ run = 1
    /\ run' = 2
    /\ first_docs' = Flatten(yielded)
    /\ cpc' = "idle"
    /\ UNCHANGED <<cfs, cops, connectorConfig, walk, genLocals, raised, formed, skipped,
                   listed>>

\* the outside writer, while the scans run
BulkFsDelete(p) ==
    /\ cops < MaxBulkOps
    /\ IsFile(cfs[p])
    /\ cfs' = [cfs EXCEPT ![p] = AbsentEntry]
    /\ cops' = cops + 1
    /\ UNCHANGED <<connectorConfig, walk, run, cpc, genLocals, raised, formed,
                   skipped, first_docs, listed>>

BulkFsChmod(p) ==
    /\ cops < MaxBulkOps
    /\ Readable(cfs[p])
    /\ cfs' = [cfs EXCEPT ![p].readable = FALSE]
    /\ cops' = cops + 1
    /\ UNCHANGED <<connectorConfig, walk, run, cpc, genLocals, raised, formed,
                   skipped, first_docs, listed>>

BulkFsWrite(p, c) ==
    /\ cops < MaxBulkOps
    /\ Readable(cfs[p])
    /\ cfs[p].content # c
    /\ cfs' = [cfs EXCEPT ![p].content = c, ![p].mtime = 2]
    /\ cops' = cops + 1
    /\ UNCHANGED <<connectorConfig, walk, run, cpc, genLocals, raised, formed,
                   skipped, first_docs, listed>>

BulkWriter ==
    \/ \E p \in CPaths : BulkFsDelete(p)
    \/ \E p \in CPaths : BulkFsChmod(p)
    \/ \E p \in CPaths, c \in Contents : BulkFsWrite(p, c)

Generator ==
    \/ BulkStart
    \/ CreateDocumentRead
    \/ CreateDocumentId
    \/ CreateDocumentAppend
    \/ BulkFlush
    \/ BulkAgain

\* folders the connector is pointed at
BulkFolders ==
    [CPaths -> {AbsentEntry, CFile("hello", 1, TRUE), CFile("world", 2, TRUE)}]

\* the watcher is not running
WatcherIdle ==
    /\ fs = [p \in Paths |-> AbsentEntry]
    /\ now = 0
    /\ fsops = 0
    /\ events = {}
    /\ file_patterns = {}
    /\ file_hashes = ScanInitialFiles(fs, file_patterns)
    /\ pending_changes = <<>>
    /\ pc = "off"
    /\ current_time = 0
    /\ snapshot = <<>>
    /\ to_process = <<>>
    /\ file_hash = None
    /\ file_content = NoBytes
    /\ response = 0
    /\ retry_due = {}
    /\ hist = [p \in Paths |-> Live]

\* LocalFolderConnector.__init__ (lines 57-61) has run
BulkInit ==
    /\ WatcherIdle
    /\ MonitorsIdle
    /\ ConstructorIdle
    /\ ListIdle
    /\ cfs \in BulkFolders
    /\ cops = 0
    /\ batch_size \in 1..MaxBatch
    /\ compute_hash \in BOOLEAN
    /\ c_patterns \in PatternSets
    /\ window \in {None} \cup Windows
    /\ walk = "fwd"
    /\ run = 1
    /\ cpc = "idle"
    /\ files = <<>>
    /\ batch = <<>>
    /\ yielded = <<>>
    /\ blob = None
    /\ doc_id = None
    /\ raised = FALSE
    /\ formed = <<>>
    /\ skipped = {}
    /\ first_docs = <<>>
    /\ listed = <<>>

BulkNext == (Generator \/ BulkWriter) /\ UNCHANGED <<wvars, pvars, lvars, mvars>>

SpecBulk == BulkInit /\ [][BulkNext]_vars

(***************************************************************************)
(* LocalFolderConnector._list_files (lines 126-195) on its own: recursive  *)
(* or top-level, over a root that may not be readable                      *)
(***************************************************************************)
\* entry.path of an entry of os.scandir(self.folder_path)
TopLevel(p) == p \in {"a.txt", "b.log"}

\* the (start, end) pairs of poll_source
ListWindows == {w \in (1..MaxMtime) \X (1..MaxMtime) : w[1] <= w[2]}

\* the folders _list_files is run on
ListFolders ==
    [LPaths -> {AbsentEntry} \cup {CFile("hello", t, TRUE) : t \in (1..MaxMtime) \cup {NoStat}}]

ListInit ==
    /\ WatcherIdle
    /\ MonitorsIdle
    /\ ConstructorIdle
    /\ cfs \in ListFolders
    /\ cops = 0
    /\ batch_size = 1
    /\ compute_hash = TRUE
    /\ c_patterns \in ListPatternSets
    /\ window \in {None} \cup ListWindows
    /\ walk = "fwd"
    /\ run = 1
    /\ cpc = "idle"
    /\ files = <<>>
    /\ batch = <<>>
    /\ yielded = <<>>
    /\ blob = None
    /\ doc_id = None
    /\ raised = FALSE
    /\ formed = <<>>
    /\ skipped = {}
    /\ first_docs = <<>>
    /\ listed = <<>>
    /\ recursive \in BOOLEAN
    /\ root_readable \in BOOLEAN

listFrame == <<cfs, cops, connectorConfig, walk, run, batch, yielded, blob, doc_id,
               formed, skipped, first_docs>>

\* lines 138-163: os.walk hands out nothing when it cannot read the root (its
\* onerror is None, the error of scandir is dropped)
ListFilesWalk ==
    /\ cpc = "idle"
    /\ recursive
    /\ files' = IF root_readable
                THEN ListFiles(cfs, c_patterns, window, ListOrder)
                ELSE <<>>
    /\ listed' = files'
    /\ raised' = FALSE
    /\ cpc' = "listed"
    /\ UNCHANGED listFrame

\* lines 164-193: os.scandir of the root; its OSError becomes a
\* ConnectorValidationError
ListFilesScandir ==
    /\ cpc = "idle"
    /\ ~recursive
    /\ IF root_readable
       THEN /\ files' = ListFiles(cfs, c_patterns, window, SelectSeq(ListOrder, TopLevel))
            /\ raised' = FALSE
            /\ cpc' = "listed"
       ELSE /\ files' = <<>>
            /\ raised' = TRUE
            /\ cpc' = "aborted"
    /\ listed' = files'
    /\ UNCHANGED listFrame

ListNext == (ListFilesWalk \/ ListFilesScandir) /\ UNCHANGED <<wvars, pvars, lvars, mvars>>

SpecList == ListInit /\ [][ListNext]_vars

(***************************************************************************)
(* LocalFolderConnector.__init__: the root path and the allowed base       *)
(* A path is a sequence of one-character strings.                          *)
(***************************************************************************)
Chars == {"/", "d", "x", "."}
Slash == <<"/">>
DotDot == <<".", ".">>

\* every string over Chars of at most n characters
RECURSIVE Strings(_)
Strings(n) ==
    IF n = 0 THEN {<<>>}
    ELSE LET shorter == Strings(n - 1)
         IN shorter \cup {Append(t, c) : t \in {u \in shorter : Len(u) = n - 1}, c \in Chars}

\* str.split("/")
RECURSIVE Split(_)
Split(str) ==
    IF str = <<>> THEN << <<>> >>
    ELSE LET rest == Split(Tail(str))
         IN IF Head(str) = "/" THEN << <<>> >> \o rest
            ELSE << <<Head(str)>> \o Head(rest) >> \o Tail(rest)

\* "/".join(comps)
RECURSIVE Join(_)
Join(comps) ==
    IF comps = <<>> THEN <<>>
    ELSE IF Len(comps) = 1 THEN Head(comps)
    ELSE Head(comps) \o Slash \o Join(Tail(comps))

\* str.startswith(prefix)
StartsWith(str, prefix) ==
    /\ Len(prefix) <= Len(str)
    /\ SubSeq(str, 1, Len(prefix)) = prefix

\* posixpath.normpath: POSIX keeps exactly two leading slashes apart
InitialSlashes(path) ==
    IF ~StartsWith(path, Slash) THEN 0
    ELSE IF StartsWith(path, Slash \o Slash) /\ ~StartsWith(path, Slash \o Slash \o Slash)
         THEN 2
         ELSE 1

\* posixpath.normpath, the loop over the components
RECURSIVE NormComps(_, _, _)
NormComps(comps, new_comps, initial_slashes) ==
    IF comps = <<>> THEN new_comps
    ELSE LET comp == Head(comps)
             kept ==
                 IF comp \in {<<>>, <<".">>} THEN new_comps
                 ELSE IF \/ comp # DotDot
                         \/ (initial_slashes = 0 /\ new_comps = <<>>)
                         \/ (new_comps # <<>> /\ new_comps[Len(new_comps)] = DotDot)
                      THEN Append(new_comps, comp)
                      ELSE IF new_comps # <<>>
                           THEN SubSeq(new_comps, 1, Len(new_comps) - 1)
                           ELSE new_comps
         IN NormComps(Tail(comps), kept, initial_slashes)

Normpath(path) ==
    IF path = <<>> THEN <<".">>
    ELSE LET n == InitialSlashes(path)
             joined == Join(NormComps(Split(path), <<>>, n))
             whole == (IF n = 2 THEN Slash \o Slash ELSE IF n = 1 THEN Slash ELSE <<>>)
                      \o joined
         IN IF whole = <<>> THEN <<".">> ELSE whole

\* os.getcwd() of the process that builds the connector
Cwd == <<"/", "x">>

\* os.path.abspath: a relative path is joined to the working directory
Abspath(path) ==
    IF StartsWith(path, Slash) THEN Normpath(path)
    ELSE Normpath(Cwd \o Slash \o path)

\* lines 65-68: the test that lets the constructor go on
WithinAllowedBase(folder, base) == StartsWith(folder, base)

\* the allowed bases given to the constructor
Bases == {<<"/", "d">>, <<"/", "d", "/">>, <<"/", "d", "/", "x">>}

PathInit ==
    /\ WatcherIdle
    /\ MonitorsIdle
    /\ ConnectorIdle
    /\ ListIdle
    /\ folder_path \in Strings(MaxPathLen)
    /\ allowed_base_path \in Bases
    /\ self_folder_path = <<>>
    /\ self_allowed_base_path = <<>>
    /\ ipc = "new"

\* lines 57-70
ConnectorInit ==
    /\ ipc = "new"
    /\ self_folder_path' = Abspath(folder_path)
    /\ self_allowed_base_path' = Abspath(allowed_base_path)
    /\ ipc' = IF WithinAllowedBase(self_folder_path', self_allowed_base_path')
              THEN "created"
              ELSE "ConnectorValidationError"
    /\ UNCHANGED <<folder_path, allowed_base_path>>

PathNext == ConnectorInit /\ UNCHANGED <<wvars, cvars, lvars, mvars>>

SpecPath == PathInit /\ [][PathNext]_vars

(***************************************************************************)
(* Properties of the watcher                                               *)
(***************************************************************************)
SyncStages == {"hash", "compare", "read", "post", "commit"}

\* this step leaves _sync_file_to_ragflow for the file at the head of to_process
SyncEnds == pc \in SyncStages /\ to_process' = Tail(to_process)

\* ... without the file having been accepted by the server: an exception in
\* hashing, reading or posting, or a response other than 200
DeliveryFails ==
    /\ SyncEnds
    /\ pc # "compare"
    /\ ~(pc = "commit" /\ response = 200)

\* C1: a failed delivery leaves file_hashes exactly as it was, and the only
\* step that gives a path a new fingerprint is the commit of that path's own
\* upload after a 200 response
C1_FailureKeepsFingerprint ==
    [][ /\ DeliveryFails => file_hashes' = file_hashes
        /\ \A p \in Paths :
              (Get(file_hashes', p) # None /\ Get(file_hashes', p) # Get(file_hashes, p))
              => (pc = "commit" /\ SyncPath = p /\ response = 200) ]_vars

\* a delivery of a tracked, modified file has failed and its old fingerprint is
\* still the tracked one
C1_Witness ==
    \E p \in retry_due :
        /\ p \in DOMAIN file_hashes
        /\ IsFile(fs[p])
        /\ file_hashes[p] # Sha256(fs[p].content)
        /\ file_hashes[p] = Sha256("hello")

\* C2: after a refused upload of a file that is still there, the next drain
\* cycle takes the file up again although no notification for it came in
\* between or is on its way
C2_RetriedOnNextCycle ==
    [][ (pc = "drain" /\ pc' = "scan")
        => \A p \in retry_due :
              (IsFile(fs[p]) /\ \A e \in events : p \notin {e.src, e.dest})
              => p \in Keys(snapshot') ]_vars

\* at most one pending record per path
OneRecordPerPath ==
    \A i, j \in 1..Len(pending_changes) :
        pending_changes[i][1] = pending_changes[j][1] => i = j

\* process_pending_changes takes the record of p out of pending_changes
ReleaseStep(p) ==
    /\ pc = "scan"
    /\ p \in Keys(pending_changes)
    /\ p \notin Keys(pending_changes')

\* C3: a path has at most one pending record, a release hands the path over
\* once, and the poll that releases it runs no sooner than debounce_seconds
\* after the last notification of the path
C3_DebounceCoalescing ==
    /\ []OneRecordPerPath
    /\ [][ \A p \in Paths :
              ReleaseStep(p) =>
                /\ to_process' = Append(to_process, p)
                /\ current_time - TimeOf(pending_changes, p) >= debounce_seconds ]_vars

\* the main thread executes the comparison of lines 174-177
CompareStep == pc = "compare" /\ pc' # "compare"

\* the observer handles the notification e
EventHandled(e) == e \in events /\ events' = events \ {e}

\* C4: handling the notification of a removed, tracked path drops its entry;
\* the file put at the path afterwards, with other bytes, is compared against
\* no entry (Created) and goes on to the upload
C4_DeletedThenRecreated ==
    [][ /\ \A e \in events :
              (EventHandled(e) /\ e.kind = "changed" /\ ~Exists(fs[e.src]))
              => e.src \notin DOMAIN file_hashes'
        /\ (CompareStep /\ hist[SyncPath].st = "recreated")
              => (Get(file_hashes, SyncPath) = None /\ pc' = "read") ]_vars

\* C7: a released file whose fingerprint equals the tracked one is not
\* uploaded and file_hashes stays as it is; an upload is only ever started by
\* the comparison finding the two fingerprints different
C7_UnchangedNeverUploaded ==
    [][ /\ (CompareStep /\ file_hash = Get(file_hashes, SyncPath))
              => /\ pc' \notin {"read", "post", "commit"}
                 /\ to_process' = Tail(to_process)
                 /\ file_hashes' = file_hashes
        /\ (pc' = "read" /\ pc # "read")
              => (pc = "compare" /\ file_hash # Get(file_hashes, SyncPath)) ]_vars

\* a touched file (same bytes, new st_mtime) has been released and hashed, and
\* its fingerprint is the tracked one
C7_Witness ==
    /\ pc = "compare"
    /\ hist[SyncPath] = Touched
    /\ file_hash = Get(file_hashes, SyncPath)

\* what on_moved has to leave behind for the new path
DestPending(e) ==
    (IsFile(fs[e.dest]) /\ ShouldIncludeFile(file_patterns, e.dest))
    => /\ e.dest \in Keys(pending_changes')
       /\ TimeOf(pending_changes', e.dest) = now

\* C8 as stated: once a moved event is handled the old path has no entry in
\* file_hashes and the new path is pending since the time of handling
C8_MovedAsDeleteAndCreate ==
    [][ \A e \in events :
          (EventHandled(e) /\ e.kind = "moved")
          => (e.src \notin DOMAIN file_hashes' /\ DestPending(e)) ]_vars

\* C8 amended: ... the old path has no entry in file_hashes unless a file
\* exists at the old path again when the event is handled
C8_MovedAsDeleteAndCreateIfGone ==
    [][ \A e \in events :
          (EventHandled(e) /\ e.kind = "moved")
          => /\ ~Exists(fs[e.src]) => e.src \notin DOMAIN file_hashes'
             /\ DestPending(e) ]_vars

\* a tracked file was renamed, the moved event has been handled: the old path
\* is gone from file_hashes and the new path is pending since now
C8_Witness ==
    \E p \in Paths, q \in Paths :
        /\ p # q
        /\ hist[p].st = "removed"
        /\ hist[p].by = "rename"
        /\ MovedEvent(p, q) \notin events
        /\ p \notin DOMAIN file_hashes
        /\ q \in Keys(pending_changes)
        /\ TimeOf(pending_changes, q) = now

\* C14: handling the notification of a removed path that has a pending record
\* takes the record away, so that it is not released later as a create/modify
C14_DeleteDropsPending ==
    [][ \A e \in events :
          (EventHandled(e) /\ e.kind = "changed" /\ ~Exists(fs[e.src]))
          => e.src \notin Keys(pending_changes') ]_vars

\* the main thread takes a step
MainStep == <<pc, to_process, snapshot>>' # <<pc, to_process, snapshot>>

\* the sync of the released file ends at the hash or at the read, on the
\* exception of open() / os.stat()
FileUnavailableStep ==
    /\ pc \in {"hash", "read"}
    /\ to_process # <<>>
    /\ to_process' = Tail(to_process)

\* C19: a released file that is gone when it is hashed or read ends its sync
\* there; whenever the sync ends there (vanished or unreadable) no upload is
\* made, file_hashes stays as it is, and the main thread goes on with the next
\* released path of the cycle; an upload is only made of bytes just read
C19_UnavailableFileSkipped ==
    [][ /\ (pc \in {"hash", "read"} /\ MainStep /\ ~IsFile(fs[SyncPath]))
              => FileUnavailableStep
        /\ FileUnavailableStep
              => /\ file_hashes' = file_hashes
                 /\ response' = 0
                 /\ pc' = (IF Tail(to_process) = <<>> THEN "sleep" ELSE "hash")
        /\ (pc' = "post" /\ pc # "post")
              => /\ pc = "read"
                 /\ IsFile(fs[SyncPath])
                 /\ file_content' = fs[SyncPath].content ]_vars

\* two paths were released in one cycle and the file of the first is gone
\* when the main thread comes to hash it
C19_Witness ==
    /\ pc = "hash"
    /\ Len(to_process) = 2
    /\ ~IsFile(fs[SyncPath])
    /\ IsFile(fs[to_process[2]])

C17_DeletedNotTracked ==
    \A p \in Paths : hist[p].st = "removed" => p \notin DOMAIN file_hashes

\* C23: the fingerprint that goes with an upload, and that line 212 commits
\* to file_hashes when the upload is accepted, is the SHA-256 of the bytes
\* that are uploaded, whatever the outside writer does meanwhile
C23_FingerprintOfDeliveredBytes ==
    pc \in {"post", "commit"} => file_hash = Sha256(file_content)

(***************************************************************************)
(* Properties of the bulk scan                                             *)
(***************************************************************************)
Ceil(m, k) == (m + k - 1) \div k
Emitted == Flatten(yielded)

\* the generator is exhausted (and the next scan has not listed yet)
ScanOver == cpc \in {"done", "idle"}

\* both scans have run to the end and the folder was never changed
TwoQuietScans == cpc = "done" /\ run = 2 /\ cops = 0

C6_BatchCompleteness ==
    /\ Emitted \o batch = formed
    /\ \A i \in 1..Len(yielded) :
          /\ Len(yielded[i]) >= 1
          /\ (i < Len(yielded) \/ ~ScanOver) => Len(yielded[i]) = batch_size
    /\ ScanOver =>
          LET M == Len(formed)
              K == batch_size
          IN /\ Len(yielded) = Ceil(M, K)
             /\ M > 0 => Len(yielded[Len(yielded)]) = (IF M % K = 0 THEN K ELSE M % K)

\* a scan of three documents with batch_size 2 is over: a full batch and a
\* last one of one document
C6_Witness ==
    /\ cpc = "done"
    /\ batch_size = 2
    /\ Len(formed) = 3
    /\ Len(yielded) = 2

\* C9: no exception of a single file reaches the caller; at the end of the
\* scan every listed file is either skipped or in a yielded batch, never both
C9_PerFileFailureContained ==
    /\ ~raised
    /\ cpc # "aborted"
    /\ cpc = "done" =>
          \A p \in Range(listed) :
              (p \in skipped) # (\E d \in Range(Emitted) : d.source_path = p)

\* a scan is over in which a listed file failed and two others were emitted
C9_Witness ==
    /\ cpc = "done"
    /\ skipped # {}
    /\ Len(Emitted) >= 2
    /\ \E i \in 1..Len(listed) : i > 1 /\ i < Len(listed) /\ listed[i] \in skipped

\* the documents built so far by the two scans
AllDocs == Range(formed) \cup Range(first_docs)

\* the ids that are made of a content fingerprint and of nothing else
FingerprintIds == {<<"local_folder", Sha256(c)>> : c \in Contents}

\* C21: with compute_hash the id of a Document is made of the fingerprint of
\* the file alone, so that files of identical bytes at different paths get
\* the same id (the folder being left alone while they are read); without
\* compute_hash it is made of the relative path alone: a file keeps its id
\* when its bytes change between two scans, and two documents have the same
\* id only if they have the same relative path
C21_IdFromFingerprintOrPath ==
    \A d1 \in AllDocs, d2 \in AllDocs :
        IF compute_hash
        THEN /\ d1.id \in FingerprintIds
             /\ (cops = 0 /\ d1.blob = d2.blob) => d1.id = d2.id
        ELSE d1.id = d2.id <=> d1.source_path = d2.source_path

\* with compute_hash, two files of identical bytes at different paths have
\* been made into documents, the folder untouched
C21_Witness ==
    /\ compute_hash
    /\ cops = 0
    /\ \E d1 \in Range(formed), d2 \in Range(formed) :
          d1.source_path # d2.source_path /\ d1.blob = d2.blob

\* without compute_hash, a file rewritten between the two scans has been made
\* into a document by each, next to a document of another path
C21_RewrittenKeepsId ==
    /\ ~compute_hash
    /\ \E d1 \in Range(first_docs), d2 \in Range(formed), d3 \in Range(formed) :
          /\ d1.source_path = d2.source_path
          /\ d1.blob # d2.blob
          /\ d3.source_path # d2.source_path

(***************************************************************************)
(* Properties of the constructor                                           *)
(***************************************************************************)
\* the components of an absolute normalised path
Components(path) == SelectSeq(Split(path), LAMBDA comp : comp # <<>>)

\* folder is base or a descendant of base
Inside(folder, base) ==
    LET f == Components(folder)
        b == Components(base)
    IN Len(b) <= Len(f) /\ SubSeq(f, 1, Len(b)) = b

\* C10: a connector is created only for a root path that is the allowed base
\* or a descendant of it; every other path ends in a validation error
C10_RootInsideAllowedBase ==
    ipc \in {"created", "ConnectorValidationError"} =>
        /\ ipc = "created" => Inside(Abspath(folder_path), Abspath(allowed_base_path))
        /\ ~Inside(Abspath(folder_path), Abspath(allowed_base_path))
              => ipc = "ConnectorValidationError"

(***************************************************************************)
(* Properties of _list_files                                               *)
(***************************************************************************)
\* C11: when the root cannot be read the call ends with an error at the
\* caller, whether the connector is recursive or not
C11_RootFailureIsFatal ==
    (cpc # "idle" /\ ~root_readable) => (raised /\ cpc = "aborted")

\* the paths the enumeration visits
Visited == IF recursive THEN LPaths ELSE {p \in LPaths : TopLevel(p)}

\* the base name of p matches one of the patterns, or there is no pattern
PatternsAdmit(p) ==
    c_patterns = {} \/ \E pat \in c_patterns : Fnmatch(Basename(p), pat)

\* the modification time of p lies in the window, both ends included
WindowAdmits(p) ==
    window # None =>
        /\ cfs[p].mtime # NoStat
        /\ window[1] <= cfs[p].mtime
        /\ cfs[p].mtime <= window[2]

\* C13: of the files the enumeration visits, those listed are exactly the
\* ones whose base name the patterns admit and whose modification time lies
\* in the window (ends included); a file whose modification time cannot be
\* read is left out and no error is raised
C13_ListedIffPatternAndWindow ==
    (cpc = "listed" /\ root_readable) =>
        /\ ~raised
        /\ \A p \in Visited :
              (p \in Range(files))
                  <=> (IsFile(cfs[p]) /\ PatternsAdmit(p) /\ WindowAdmits(p))
        /\ \A p \in LPaths : ~PatternsAdmit(p) => p \notin Range(files)

\* a poll of the window [1, 1] with the pattern *.txt has listed a.txt, modified
\* at 1; b.log, modified at 1, is left out by the pattern and sub/d.txt by its
\* unreadable modification time
C13_Witness ==
    /\ cpc = "listed"
    /\ recursive
    /\ root_readable
    /\ window = <<1, 1>>
    /\ c_patterns = {"*.txt"}
    /\ IsFile(cfs["a.txt"]) /\ cfs["a.txt"].mtime = 1
    /\ IsFile(cfs["b.log"]) /\ cfs["b.log"].mtime = 1
    /\ IsFile(cfs["sub/d.txt"]) /\ cfs["sub/d.txt"].mtime = NoStat
    /\ files = <<"a.txt">>

(***************************************************************************)
(* Properties of the start-up of the watcher                               *)
(***************************************************************************)
\* C12: started with --initial-sync, once the observer is started every file
\* of the folder whose sync attempt was not refused and did not fail to read
\* the file has been accepted by the server
C12_InitialSyncUploadsAll ==
    (pc = "sleep" /\ initial_sync) =>
        \A p \in Paths :
            (IsFile(fs[p]) /\ outcome[p] \notin {"refused", "unavailable"})
            => /\ outcome[p] = "accepted"
               /\ Get(delivered, p) = Sha256(fs[p].content)

\* C15: every path of file_hashes carries the fingerprint of the bytes that
\* were last accepted by the server for it
C15_TrackedMeansDelivered ==
    \A p \in DOMAIN file_hashes : Get(delivered, p) = file_hashes[p]

\* C24: with include patterns, a file whose base name matches none of them is
\* never uploaded, by the initial sync no more than after an event, and its
\* path is never in pending_changes nor in file_hashes
C24_PatternsBindTheWatcher ==
    file_patterns # {} =>
        \A p \in Paths :
            ~ShouldIncludeFile(file_patterns, p) =>
                /\ p \notin DOMAIN delivered
                /\ p \notin Keys(pending_changes)
                /\ p \notin DOMAIN file_hashes

(***************************************************************************)
(* Properties of the stop                                                  *)
(***************************************************************************)
\* C20: the stop lets the drain cycle in progress come to its end: no path
\* that the cycle has taken out of pending_changes is left without its sync
\* attempt; and once stopped the main thread starts no other cycle
C20_StopCompletesCycle ==
    /\ dropped = {}
    /\ pc = "stopped" => (to_process = <<>> /\ snapshot = <<>>)

(***************************************************************************)
(* Properties of the timing of the uploads                                 *)
(***************************************************************************)
\* the main thread sends the request that carries the Document of the file at
\* the head of to_process (line 201)
SendStep == pc = "read" /\ pc' = "post"

\* the burst of the path is over: no notification for it since its release
BurstOver(p) ==
    /\ burst[p].noted = {}
    /\ burst[p].released # {}
    /\ \A e \in events : p \notin Named(e)

First(times) == CHOOSE t \in times : \A u \in times : t <= u
Last(times) == CHOOSE t \in times : \A u \in times : t >= u

\* C18: after a burst of notifications for a path, and no more, one Document
\* leaves for that path, no earlier than debounce_seconds after the first
\* notification and no later than debounce_seconds + drain_interval after the
\* last one, whatever other paths are pending in the same cycles.  The time is
\* taken when the request is sent, so the path's own upload does not count
C18_BurstDeliveredInTime ==
    [][ (SendStep /\ BurstOver(SyncPath))
        => /\ SyncPath \notin Range(Tail(to_process))
           /\ now >= First(burst[SyncPath].released) + debounce_seconds
           /\ now <= Last(burst[SyncPath].released) + debounce_seconds + drain_interval ]_vars

(***************************************************************************)
(* Properties of the watcher in the long run                               *)
(***************************************************************************)
\* no upload has just been refused; always so, no upload is ever refused
NoneRefused == retry_due = {}

\* nothing is pending, and every file that is there and passes the patterns
\* is tracked with the fingerprint of the bytes it has
InSync ==
    /\ pending_changes = <<>>
    /\ \A p \in Paths :
          (IsFile(fs[p]) /\ ShouldIncludeFile(file_patterns, p))
          => (p \in DOMAIN file_hashes /\ file_hashes[p] = Sha256(fs[p].content))

====
